---- MODULE Spec2Model ----
(***************************************************************************)
(* Model of tools/AlignMoreSeqsToPairWithMissingCoverage.py.               *)
(*                                                                         *)
(* A sequence is a TLA+ sequence of one-character strings.  The consensus   *)
(* may hold bases, the gap "-" and the missing-coverage character "?".     *)
(* The script validates the (consensus, reference) pair, replaces "?" by   *)
(* "-", calls mafft, checks the bases of the consensus are unchanged,      *)
(* splits the consensus before and after alignment into runs, walks the    *)
(* two lists of runs to rebuild the consensus with "?" restored, checks    *)
(* the result and prints it.                                               *)
(*                                                                         *)
(* Every exit(1) of the script is a transition to pc = "failed" with the   *)
(* error kind of its message; an uncaught Python exception inside the      *)
(* script's own code is a transition to pc = "crashed".                    *)
(***************************************************************************)
EXTENDS Integers, Sequences, FiniteSets, TLC

\* ------------------------------------------------------------------ bounds
MaxLen == 3       \* longest consensus / reference of the input pair
MaxPostLen == 4   \* longest consensus mafft returns

\* ---------------------------------------------------------------- alphabet
Bases == {"A", "C"}
GapChar == "-"
MissingChar == "?"
ConsensusAlphabet == Bases \cup {GapChar, MissingChar}
RefAlphabet == {"G", GapChar}
PostAlphabet == Bases \cup {GapChar}

SeqsUpTo(S, n) == UNION {[1..k -> S] : k \in 0..n}

\* ----------------------------------------------------------- string helpers
\* Python str.replace(a, b) for one-character a and b.
Replace(s, a, b) == [i \in 1..Len(s) |-> IF s[i] = a THEN b ELSE s[i]]

\* Python str.replace('-', '').
StripGaps(s) == SelectSeq(s, LAMBDA c : c # GapChar)

\* Python c * n.
Repeat(c, n) == [i \in 1..n |-> c]

\* Python "ab" in s, for a two-character pattern.
Contains2(s, a, b) == \E i \in 1..(Len(s) - 1) : s[i] = a /\ s[i + 1] = b

RECURSIVE Concat(_)
Concat(bits) == IF bits = <<>> THEN <<>> ELSE Head(bits) \o Concat(Tail(bits))

\* ------------------------------------------------------- input pair checks
\* Lines 76-91: the first failing test decides; "ok" when none fails.
CheckPairLenient(c, r) ==
  IF Len(c) # Len(r) THEN "lengths"
  ELSE IF \E i \in 1..Len(c) : r[i] = GapChar /\ c[i] = GapChar THEN "column"
  ELSE "ok"

CheckPair(c, r) ==
  IF Len(c) # Len(r) THEN "lengths"
  ELSE IF \E i \in 1..Len(c) :
            r[i] = GapChar /\ (c[i] = GapChar \/ c[i] = MissingChar)
       THEN "column"
  ELSE "ok"

\* ------------------------------------------------ coverage-gap normalizer
\* AuxiliaryFunctions.PropagateNoCoverageChar: every gap that borders
\* missing coverage becomes missing coverage, until none is left.
BordersMissing(s, i) ==
  /\ s[i] = GapChar
  /\ \/ (i > 1 /\ s[i - 1] = MissingChar)
     \/ (i < Len(s) /\ s[i + 1] = MissingChar)

RECURSIVE PropagateNoCoverageChar(_)
PropagateNoCoverageChar(s) ==
  IF \E i \in 1..Len(s) : BordersMissing(s, i)
  THEN PropagateNoCoverageChar(
         [i \in 1..Len(s) |-> IF BordersMissing(s, i) THEN MissingChar ELSE s[i]])
  ELSE s

\* --------------------------------------------------------------- segmenter
CharToInt(char) ==
  IF char = MissingChar THEN 0 ELSE IF char = GapChar THEN 1 ELSE 2

\* The body of the for loop of SplitSeqByGapsAndMissingCov from index i on.
RECURSIVE SplitFrom(_, _, _, _)
SplitFrom(seq, i, bits, types) ==
  IF i > Len(seq) THEN [raised |-> FALSE, bits |-> bits, types |-> types]
  ELSE IF i = 1
    THEN SplitFrom(seq, 2, <<(<<seq[1]>>)>>, <<CharToInt(seq[1])>>)
  ELSE IF CharToInt(seq[i]) = types[Len(types)]
    THEN SplitFrom(seq, i + 1,
                   [bits EXCEPT ![Len(bits)] = Append(@, seq[i])], types)
  ELSE SplitFrom(seq, i + 1, Append(bits, <<seq[i]>>),
                 Append(types, CharToInt(seq[i])))

\* For the empty string the loop body never runs, the two lists are never
\* bound, and the return statement raises UnboundLocalError.
SplitSeqByGapsAndMissingCov(seq) ==
  IF Len(seq) = 0 THEN [raised |-> TRUE, bits |-> <<>>, types |-> <<>>]
  ELSE SplitFrom(seq, 1, <<>>, <<>>)

\* ------------------------------------------------------------------- state
VARIABLES
  consensus,                   \* str(consensus.seq) as read from the pair file
  ref,                         \* str(ref.seq)
  ConsensusAsString,           \* line 95
  ConsensusNoMissingCovStr,    \* line 109
  mafftCalled,                 \* subprocess.call of line 122 was made
  PostAlignmentConsensusAsStr, \* line 144
  PreAlnConsensusBits, PreAlnConsensusBitTypes,     \* line 179
  PostAlnConsensusBits, PostAlnConsensusBitTypes,   \* line 181
  NewConsensus,                \* line 184
  ProgThroughPostAln,          \* 0-based cursor into PostAlnConsensusBits
  ProgThroughPreAln,           \* 0-based index of the next PreAln bit
  MissingCovPostBits,          \* cursors at which line 201 wrote "?"
  stdout,                      \* consensus sequences written by line 245
  pc,                          \* position in the script
  err                          \* kind of the fatal error, "none" if none

vars == <<consensus, ref, ConsensusAsString, ConsensusNoMissingCovStr,
          mafftCalled, PostAlignmentConsensusAsStr,
          PreAlnConsensusBits, PreAlnConsensusBitTypes,
          PostAlnConsensusBits, PostAlnConsensusBitTypes,
          NewConsensus, ProgThroughPostAln, ProgThroughPreAln,
          MissingCovPostBits, stdout, pc, err>>

inputVars == <<consensus, ref>>
prepVars == <<ConsensusAsString, ConsensusNoMissingCovStr>>
bitVars == <<PreAlnConsensusBits, PreAlnConsensusBitTypes,
             PostAlnConsensusBits, PostAlnConsensusBitTypes>>
walkVars == <<NewConsensus, ProgThroughPostAln, ProgThroughPreAln,
              MissingCovPostBits>>

\* The state once the two sequences of the pair file have been read.
Init ==
  /\ consensus \in SeqsUpTo(ConsensusAlphabet, MaxLen)
  /\ ref \in SeqsUpTo(RefAlphabet, MaxLen)
  /\ ConsensusAsString = <<>>
  /\ ConsensusNoMissingCovStr = <<>>
  /\ mafftCalled = FALSE
  /\ PostAlignmentConsensusAsStr = <<>>
  /\ PreAlnConsensusBits = <<>>
  /\ PreAlnConsensusBitTypes = <<>>
  /\ PostAlnConsensusBits = <<>>
  /\ PostAlnConsensusBitTypes = <<>>
  /\ NewConsensus = <<>>
  /\ ProgThroughPostAln = 0
  /\ ProgThroughPreAln = 0
  /\ MissingCovPostBits = {}
  /\ stdout = <<>>
  /\ pc = "validate"
  /\ err = "none"

Fail(kind) == pc' = "failed" /\ err' = kind
Crash(kind) == pc' = "crashed" /\ err' = kind

\* ----------------------------------------------------------------- actions
\* Lines 73-91.
Validate ==
  /\ pc = "validate"
  /\ ConsensusAsString' = consensus
  /\ IF CheckPair(consensus, ref) = "ok"
       THEN pc' = "prepare" /\ err' = err
       ELSE Fail("FormatError")
  /\ UNCHANGED <<inputVars, ConsensusNoMissingCovStr, mafftCalled,
                 PostAlignmentConsensusAsStr, bitVars, walkVars, stdout>>

\* Lines 94-95 and 108-110.
Prepare ==
  /\ pc = "prepare"
  /\ ConsensusAsString' = PropagateNoCoverageChar(ConsensusAsString)
  /\ ConsensusNoMissingCovStr' =
       Replace(PropagateNoCoverageChar(ConsensusAsString), MissingChar, GapChar)
  /\ pc' = "align"
  /\ UNCHANGED <<inputVars, mafftCalled, PostAlignmentConsensusAsStr,
                 bitVars, walkVars, stdout, err>>

\* Lines 115-144: mafft either exits with a non-zero status or writes an
\* alignment, from which the consensus is read back.  Nothing is assumed of
\* the returned consensus: the script itself checks it next.
Align ==
  /\ pc = "align"
  /\ mafftCalled' = TRUE
  /\ \/ /\ Fail("AlignmentFailure")
        /\ UNCHANGED PostAlignmentConsensusAsStr
     \/ /\ PostAlignmentConsensusAsStr' \in SeqsUpTo(PostAlphabet, MaxPostLen)
        /\ pc' = "checkBases"
        /\ err' = err
  /\ UNCHANGED <<inputVars, prepVars, bitVars, walkVars, stdout>>

\* Lines 142-149.
CheckBases ==
  /\ pc = "checkBases"
  /\ IF StripGaps(PostAlignmentConsensusAsStr) # StripGaps(ConsensusNoMissingCovStr)
       THEN Fail("ConsistencyError")
       ELSE pc' = "split" /\ err' = err
  /\ UNCHANGED <<inputVars, prepVars, mafftCalled,
                 PostAlignmentConsensusAsStr, bitVars, walkVars, stdout>>

\* Lines 179-185.
Split ==
  /\ pc = "split"
  /\ LET pre == SplitSeqByGapsAndMissingCov(ConsensusAsString)
         post == SplitSeqByGapsAndMissingCov(PostAlignmentConsensusAsStr)
     IN IF pre.raised
          THEN /\ Crash("UnboundLocalError")
               /\ UNCHANGED bitVars
        ELSE IF post.raised
          THEN /\ Crash("UnboundLocalError")
               /\ PreAlnConsensusBits' = pre.bits
               /\ PreAlnConsensusBitTypes' = pre.types
               /\ UNCHANGED <<PostAlnConsensusBits, PostAlnConsensusBitTypes>>
        ELSE /\ PreAlnConsensusBits' = pre.bits
             /\ PreAlnConsensusBitTypes' = pre.types
             /\ PostAlnConsensusBits' = post.bits
             /\ PostAlnConsensusBitTypes' = post.types
             /\ pc' = "loop"
             /\ err' = err
  /\ UNCHANGED <<inputVars, prepVars, mafftCalled,
                 PostAlignmentConsensusAsStr, walkVars, stdout>>

\* ------------------------------------------------------ reconciliation loop
\* Line 201: the PreAln character, repeated over the PostAln length.
EmitGapBitPostChar(PreAlnConsensusBit, PostAlnConsensusBit) ==
  Repeat(PostAlnConsensusBit[1], Len(PostAlnConsensusBit))

EmitGapBit(PreAlnConsensusBit, PostAlnConsensusBit) ==
  Repeat(PreAlnConsensusBit[1], Len(PostAlnConsensusBit))

\* Lines 220-223: the while loop, started with NewForm and the cursor prog.
\* Reading PostAlnConsensusBits past its end raises IndexError.
RECURSIVE Accumulate(_, _, _)
Accumulate(NewForm, prog, PreAlnConsensusBitLength) ==
  IF Len(StripGaps(NewForm)) < PreAlnConsensusBitLength
    THEN IF prog >= Len(PostAlnConsensusBits)
           THEN [raised |-> TRUE, NewForm |-> NewForm, prog |-> prog]
           ELSE Accumulate(NewForm \o PostAlnConsensusBits[prog + 1], prog + 1,
                           PreAlnConsensusBitLength)
    ELSE [raised |-> FALSE, NewForm |-> NewForm, prog |-> prog]

\* Line 224.
FragmentMismatchLengthOnly(NewForm, PreAlnConsensusBit) ==
  Len(StripGaps(NewForm)) < Len(PreAlnConsensusBit)

FragmentMismatch(NewForm, PreAlnConsensusBit) ==
  StripGaps(NewForm) # PreAlnConsensusBit

\* Lines 187-229: one iteration of the for loop over PreAlnConsensusBits.
LoopIteration ==
  /\ pc = "loop"
  /\ ProgThroughPreAln < Len(PreAlnConsensusBits)
  /\ LET PreAlnConsensusBit == PreAlnConsensusBits[ProgThroughPreAln + 1]
         PreAlnConsensusBitType == PreAlnConsensusBitTypes[ProgThroughPreAln + 1]
     IN IF ProgThroughPostAln >= Len(PostAlnConsensusBits)
          THEN \* line 189 raises IndexError
               /\ Crash("IndexError")
               /\ UNCHANGED walkVars
        ELSE
          LET PostAlnConsensusBit == PostAlnConsensusBits[ProgThroughPostAln + 1]
              PostAlnConsensusBitType ==
                PostAlnConsensusBitTypes[ProgThroughPostAln + 1]
              acc == Accumulate(<<>>, ProgThroughPostAln, Len(PreAlnConsensusBit))
          IN IF PreAlnConsensusBitType \in {0, 1}
               THEN IF PostAlnConsensusBitType # 1
                      THEN /\ Fail("ReconciliationError")
                           /\ UNCHANGED walkVars
                      ELSE /\ NewConsensus' = NewConsensus \o
                                EmitGapBit(PreAlnConsensusBit, PostAlnConsensusBit)
                           /\ MissingCovPostBits' =
                                IF PreAlnConsensusBitType = 0
                                  THEN MissingCovPostBits \cup {ProgThroughPostAln}
                                  ELSE MissingCovPostBits
                           /\ ProgThroughPostAln' = ProgThroughPostAln + 1
                           /\ ProgThroughPreAln' = ProgThroughPreAln + 1
                           /\ UNCHANGED <<pc, err>>
             ELSE IF PostAlnConsensusBitType # 2
               THEN /\ Fail("ReconciliationError")
                    /\ UNCHANGED walkVars
             ELSE IF Len(PostAlnConsensusBit) = Len(PreAlnConsensusBit)
               THEN /\ NewConsensus' = NewConsensus \o PreAlnConsensusBit
                    /\ ProgThroughPostAln' = ProgThroughPostAln + 1
                    /\ ProgThroughPreAln' = ProgThroughPreAln + 1
                    /\ UNCHANGED <<MissingCovPostBits, pc, err>>
             ELSE IF acc.raised
               THEN /\ Crash("IndexError")
                    /\ ProgThroughPostAln' = acc.prog
                    /\ UNCHANGED <<NewConsensus, ProgThroughPreAln,
                                   MissingCovPostBits>>
             ELSE IF FragmentMismatch(acc.NewForm, PreAlnConsensusBit)
               THEN /\ Fail("ReconciliationError")
                    /\ ProgThroughPostAln' = acc.prog
                    /\ UNCHANGED <<NewConsensus, ProgThroughPreAln,
                                   MissingCovPostBits>>
             ELSE /\ NewConsensus' = NewConsensus \o acc.NewForm
                  /\ ProgThroughPostAln' = acc.prog
                  /\ ProgThroughPreAln' = ProgThroughPreAln + 1
                  /\ UNCHANGED <<MissingCovPostBits, pc, err>>
  /\ UNCHANGED <<inputVars, prepVars, mafftCalled,
                 PostAlignmentConsensusAsStr, bitVars, stdout>>

\* ---------------------------------------------------- output sanity checks
\* Line 232.
RoundTripFailsAgainstInput ==
  Replace(NewConsensus, MissingChar, GapChar) # ConsensusNoMissingCovStr

RoundTripFails ==
  Replace(NewConsensus, MissingChar, GapChar) # PostAlignmentConsensusAsStr

\* Line 237.
MissingNextToGap(s) ==
  Contains2(s, MissingChar, GapChar) \/ Contains2(s, GapChar, MissingChar)

\* Lines 231-241, reached when the for loop has run out of PreAln bits.
OutputSanityChecks ==
  /\ pc = "loop"
  /\ ProgThroughPreAln = Len(PreAlnConsensusBits)
  /\ IF RoundTripFails \/ MissingNextToGap(NewConsensus)
       THEN Fail("InvariantError")
       ELSE pc' = "write" /\ err' = err
  /\ UNCHANGED <<inputVars, prepVars, mafftCalled,
                 PostAlignmentConsensusAsStr, bitVars, walkVars, stdout>>

\* Line 243: the sequence that replaces the consensus in the alignment.
OutputSeqFromInput == consensus

OutputSeq == NewConsensus

\* Lines 243-245.
WriteOutput ==
  /\ pc = "write"
  /\ stdout' = Append(stdout, OutputSeq)
  /\ pc' = "done"
  /\ UNCHANGED <<inputVars, prepVars, mafftCalled,
                 PostAlignmentConsensusAsStr, bitVars, walkVars, err>>

Next ==
  \/ Validate
  \/ Prepare
  \/ Align
  \/ CheckBases
  \/ Split
  \/ LoopIteration
  \/ OutputSanityChecks
  \/ WriteOutput

Spec == Init /\ [][Next]_vars

\* ================================================================ properties
Written == pc = "done" /\ Len(stdout) = 1
Aligned == mafftCalled /\ err # "AlignmentFailure"
HasChar(s, c) == \E i \in 1..Len(s) : s[i] = c
Count(s, c) == Cardinality({i \in 1..Len(s) : s[i] = c})

\* post is a with gap characters inserted at some positions.
RECURSIVE IsGapInsertion(_, _)
IsGapInsertion(a, post) ==
  IF post = <<>> THEN a = <<>>
  ELSE \/ (a # <<>> /\ Head(a) = Head(post)
                    /\ IsGapInsertion(Tail(a), Tail(post)))
       \/ (Head(post) = GapChar /\ IsGapInsertion(a, Tail(post)))

\* Delete every "-", then collapse each run of "?" to one "?".
RECURSIVE CollapseRuns(_)
CollapseRuns(t) ==
  IF Len(t) <= 1 THEN t
  ELSE IF t[1] = MissingChar /\ t[2] = MissingChar THEN CollapseRuns(Tail(t))
  ELSE <<t[1]>> \o CollapseRuns(Tail(t))

Skeleton(s) == CollapseRuns(StripGaps(s))

\* Positions of the PostAln consensus covered by PostAln bit number k (from 0).
BitPositions(k) ==
  {i \in 1..Len(PostAlignmentConsensusAsStr) :
     /\ i > Len(Concat(SubSeq(PostAlnConsensusBits, 1, k)))
     /\ i <= Len(Concat(SubSeq(PostAlnConsensusBits, 1, k + 1)))}

MissingCovPositions == UNION {BitPositions(k) : k \in MissingCovPostBits}

\* --------------------------------------------------------------------- C1
\* C1: every consensus that is written, with each "?" replaced by "-", is
\* exactly the post-alignment consensus, and so has its length.
C1_RoundTrip ==
  \A k \in 1..Len(stdout) :
    /\ Replace(stdout[k], MissingChar, GapChar) = PostAlignmentConsensusAsStr
    /\ Len(stdout[k]) = Len(PostAlignmentConsensusAsStr)

C1_Witness ==
  /\ Written
  /\ HasChar(stdout[1], MissingChar)
  /\ Len(PostAlignmentConsensusAsStr) > Len(consensus)

\* --------------------------------------------------------------------- C2
\* C2: when the post-alignment consensus is the aligner-safe consensus with
\* gaps inserted at arbitrary positions, the run ends with no error and the
\* reconstructed consensus is written.  (Stated for a non-empty consensus.)
C2_GapInsertionAccepted ==
  (/\ pc \in {"failed", "crashed"}
   /\ Aligned
   /\ ConsensusNoMissingCovStr # <<>>
   /\ IsGapInsertion(ConsensusNoMissingCovStr, PostAlignmentConsensusAsStr))
  => FALSE

\* --------------------------------------------------------------------- C3
\* C3: in a written consensus a position holds "?" exactly when it lies in a
\* post-alignment gap run that the walk matched to a missing-coverage run,
\* every other position holds the post-alignment character, and the written
\* consensus and the normalized pre-alignment consensus have the same "?"
\* runs and bases in the same order.
C3_MissingCoverageRestored ==
  Written =>
    LET out == stdout[1]
    IN /\ Len(out) = Len(PostAlignmentConsensusAsStr)
       /\ \A i \in 1..Len(out) :
            /\ (out[i] = MissingChar) <=> (i \in MissingCovPositions)
            /\ (out[i] # MissingChar) => (out[i] = PostAlignmentConsensusAsStr[i])
       /\ Skeleton(out) = Skeleton(ConsensusAsString)

C3_Witness ==
  /\ Written
  /\ HasChar(stdout[1], MissingChar)
  /\ HasChar(stdout[1], GapChar)
  /\ \E b \in Bases : HasChar(stdout[1], b)
  /\ Count(stdout[1], MissingChar) > Count(ConsensusAsString, MissingChar)

\* --------------------------------------------------------------------- C4
\* C4: no written consensus holds "?" next to "-", and a reconstruction that
\* holds such a pair is never passed on to be written.
C4_NoMissingNextToGap ==
  /\ \A k \in 1..Len(stdout) :
       \A i \in 1..(Len(stdout[k]) - 1) :
         {stdout[k][i], stdout[k][i + 1]} # {MissingChar, GapChar}
  /\ (\E i \in 1..(Len(NewConsensus) - 1) :
        {NewConsensus[i], NewConsensus[i + 1]} = {MissingChar, GapChar})
       => pc \notin {"write", "done"}

C4_Witness ==
  /\ Written
  /\ HasChar(stdout[1], MissingChar)
  /\ HasChar(stdout[1], GapChar)
  /\ HasChar(consensus, GapChar)

\* --------------------------------------------------------------------- C5
\* C5: a pair whose lengths differ, or with a column that holds "-" in both
\* sequences or "?" over "-", fails with a format error, mafft is never
\* called and nothing is written; any other pair raises no format error.
BadPair ==
  \/ Len(consensus) # Len(ref)
  \/ \E i \in 1..Len(consensus) :
       /\ i <= Len(ref)
       /\ ref[i] = GapChar
       /\ consensus[i] \in {GapChar, MissingChar}

C5_ValidationPrecedesAlignment ==
  /\ BadPair => /\ ~mafftCalled
                /\ stdout = <<>>
                /\ pc \in {"validate", "failed"}
                /\ pc = "failed" => err = "FormatError"
  /\ ~BadPair => err # "FormatError"

C5_Witness ==
  /\ pc = "failed"
  /\ err = "FormatError"
  /\ Len(consensus) = Len(ref)
  /\ \E i \in 1..Len(consensus) : consensus[i] = MissingChar /\ ref[i] = GapChar

\* --------------------------------------------------------------------- C6
WalkFinished ==
  PreAlnConsensusBits # <<>> /\ ProgThroughPreAln = Len(PreAlnConsensusBits)

PostBitsLeft == ProgThroughPostAln < Len(PostAlnConsensusBits)

\* C6 as claimed: a walk that ends with PostAln bits left over ends the run
\* with a ReconciliationError.
C6_LeftoverIsReconciliationError ==
  (WalkFinished /\ PostBitsLeft /\ pc # "loop")
    => (pc = "failed" /\ err = "ReconciliationError" /\ stdout = <<>>)

\* C6 amended: a consensus is written only when the cursor has reached the
\* number of PostAln bits; a walk that ends with PostAln bits left over ends
\* the run at the round-trip check, with an InvariantError, and writes
\* nothing.
C6_LeftoverIsInvariantError ==
  /\ pc \in {"write", "done"} => ProgThroughPostAln = Len(PostAlnConsensusBits)
  /\ (WalkFinished /\ PostBitsLeft)
       => /\ stdout = <<>>
          /\ pc \in {"loop", "failed"}
          /\ pc = "failed" => err = "InvariantError"

C6_Witness ==
  /\ WalkFinished
  /\ PostBitsLeft
  /\ pc = "failed"
  /\ err = "InvariantError"
  /\ PostAlnConsensusBitTypes[Len(PostAlnConsensusBitTypes)] = 1

\* --------------------------------------------------------------------- C7
\* C7: once the base-conservation check has passed, the walk never ends by
\* reading PostAlnConsensusBits at or beyond its length; the run ends either
\* written or with a declared fatal error.
C7_NoReadPastPostBits ==
  ~(pc = "crashed" /\ err = "IndexError")

\* --------------------------------------------------------------------- C8
SegmentationOf(s, bits, types) ==
  /\ Concat(bits) = s
  /\ Len(bits) = Len(types)
  /\ \A k \in 1..Len(bits) :
       /\ bits[k] # <<>>
       /\ \A i \in 1..Len(bits[k]) : CharToInt(bits[k][i]) = types[k]
  /\ \A k \in 1..(Len(types) - 1) : types[k] # types[k + 1]

SplitDone ==
  /\ Aligned
  /\ pc \notin {"checkBases", "split"}
  /\ err # "ConsistencyError"

\* C8: for any string, the segmenter returns runs that concatenate to the
\* string, each of a single class equal to its recorded type, with no two
\* adjacent runs of one class.
C8_SegmentationTotal ==
  SplitDone =>
    /\ err # "UnboundLocalError"
    /\ SegmentationOf(ConsensusAsString,
                      PreAlnConsensusBits, PreAlnConsensusBitTypes)
    /\ SegmentationOf(PostAlignmentConsensusAsStr,
                      PostAlnConsensusBits, PostAlnConsensusBitTypes)

\* --------------------------------------------------------------------- C9
AtPreBit ==
  pc = "loop" /\ ProgThroughPreAln < Len(PreAlnConsensusBits)

CursorInRange == ProgThroughPostAln < Len(PostAlnConsensusBits)

\* What the claim allows a step on a gap or missing-coverage PreAln bit to do.
C9_Outcome ==
  IF ~CursorInRange \/ PostAlnConsensusBitTypes[ProgThroughPostAln + 1] # 1
    THEN /\ pc' = "failed"
         /\ err' = "ReconciliationError"
         /\ stdout' = <<>>
         /\ NewConsensus' = NewConsensus
    ELSE /\ pc' = "loop"
         /\ ProgThroughPostAln' = ProgThroughPostAln + 1
         /\ ProgThroughPreAln' = ProgThroughPreAln + 1
         /\ Len(NewConsensus') =
              Len(NewConsensus) + Len(PostAlnConsensusBits[ProgThroughPostAln + 1])
         /\ SubSeq(NewConsensus', 1, Len(NewConsensus)) = NewConsensus
         /\ \A i \in (Len(NewConsensus) + 1)..Len(NewConsensus') :
              NewConsensus'[i] =
                IF PreAlnConsensusBitTypes[ProgThroughPreAln + 1] = 0
                  THEN MissingChar ELSE GapChar

AtGapOrMissingPreBit ==
  AtPreBit /\ PreAlnConsensusBitTypes[ProgThroughPreAln + 1] \in {0, 1}

\* C9: every step of the walk on a missing-coverage or gap PreAln bit fails
\* with a ReconciliationError and writes nothing unless a gap run is at the
\* cursor; when one is, the step appends the PreAln bit's own character
\* len(PostAln bit) times and moves the cursor on by exactly one.
C9_GapStep == [][AtGapOrMissingPreBit => C9_Outcome]_vars

\* The same, for the steps taken while the cursor is inside
\* PostAlnConsensusBits.
C9_GapStepInsidePostBits ==
  [][(AtGapOrMissingPreBit /\ CursorInRange) => C9_Outcome]_vars

\* -------------------------------------------------------------------- C10
PreConsumed == Concat(SubSeq(PreAlnConsensusBits, 1, ProgThroughPreAln))
PostConsumed == Concat(SubSeq(PostAlnConsensusBits, 1, ProgThroughPostAln))
PostBitsFrom(a, b) == Concat(SubSeq(PostAlnConsensusBits, a + 1, b))

\* At every iteration start the bases consumed on the two sides are equal.
C10_BasesInStep ==
  pc = "loop" =>
    StripGaps(Replace(PreConsumed, MissingChar, GapChar)) = StripGaps(PostConsumed)

C10_BaseStepOk ==
  (/\ AtPreBit
   /\ PreAlnConsensusBitTypes[ProgThroughPreAln + 1] = 2)
  =>
  LET PreAlnConsensusBit == PreAlnConsensusBits[ProgThroughPreAln + 1]
  IN \/ /\ pc' = "loop"
        /\ ProgThroughPreAln' = ProgThroughPreAln + 1
        /\ ProgThroughPostAln' > ProgThroughPostAln
        /\ ProgThroughPostAln' <= Len(PostAlnConsensusBits)
        /\ NewConsensus' =
             NewConsensus \o PostBitsFrom(ProgThroughPostAln, ProgThroughPostAln')
        /\ StripGaps(PostBitsFrom(ProgThroughPostAln, ProgThroughPostAln'))
             = PreAlnConsensusBit
        /\ Len(StripGaps(PostBitsFrom(ProgThroughPostAln, ProgThroughPostAln' - 1)))
             < Len(PreAlnConsensusBit)
     \/ /\ pc' = "failed"
        /\ err' = "ReconciliationError"
        /\ NewConsensus' = NewConsensus
        /\ stdout' = <<>>
        /\ ~ \E j \in (ProgThroughPostAln + 1)..Len(PostAlnConsensusBits) :
               /\ PostAlnConsensusBitTypes[ProgThroughPostAln + 1] = 2
               /\ StripGaps(PostBitsFrom(ProgThroughPostAln, j)) = PreAlnConsensusBit

\* C10: a step of the walk on a base PreAln bit of length L consumes PostAln
\* bits from the cursor until their non-gap characters number L and appends
\* exactly those bits, whose gap-stripped text is the PreAln bit; otherwise
\* it fails with a ReconciliationError.  This includes the step that appends
\* the PreAln bit itself, and so at every iteration start the bases consumed
\* before and after alignment are the same.
C10_BaseStep == [](C10_BasesInStep) /\ [][C10_BaseStepOk]_vars

C10_Witness ==
  /\ Written
  /\ ~HasChar(consensus, GapChar)
  /\ ~HasChar(consensus, MissingChar)
  /\ HasChar(stdout[1], GapChar)
  /\ stdout[1][1] # stdout[1][Len(stdout[1])]

====
